---------------------------- MODULE Spec2Model ----------------------------
(***************************************************************************)
(* smarthomelib: the lifecycle base classes (SmartHomeBase,                *)
(* SmartHomeClientBase) and the MQTT broker client built on them.          *)
(*                                                                         *)
(* Strings the code takes apart (topics, payloads) are sequences of        *)
(* one-character strings; strings it only passes on (warning texts, event  *)
(* names) are TLA+ strings.  Time is in milliseconds, as Date.now().       *)
(***************************************************************************)
EXTENDS Integers, Sequences, FiniteSets, TLC

VARIABLES
    initialized,        \* SmartHomeBase.initialized
    lastActivity,       \* SmartHomeBase.lastActivity, ms since the epoch
    connected,          \* SmartHomeClientBase.connected
    client,             \* MqttBrokerClient.client: "undefined" or "handle"
    listening,          \* SmartHomeServerBase.listening
    now,                \* the wall clock, Date.now()
    transport,          \* the MQTT connection: "idle" before the first
                        \* connect callback, then "connected" or "closed"
    retained,           \* the code the broker retains on {system}/connected
    op,                 \* the operation that ran last
    args,               \* and its arguments
    out,                \* what that operation did, in order: events
                        \* dispatched, fields written, warnings, calls made
                        \* to the transport
    idle,               \* ms since the last onActive() call, Never if none
    reconnect,          \* the last connect callback followed a close callback
    requested,          \* the topic filters the application asked for so far
    retainedBefore,     \* `retained` as the last operation found it
    deviceConnectedCallback,    \* "unset", or "set" once the application
                                \* has registered its predicate
    busTimer,           \* when the bus-health timer fires next, or Never
    deviceTimer,        \* when the device-liveness timer fires next
    connectedSince,     \* since when the transport is connected, or Never
    config,             \* the Config object the process has constructed:
                        \* <<>> while there is none, else <<the object>>
    statics,            \* the static fields Config.system, Config.logLevel
    intervals,          \* one entry per setInterval() call of the database
                        \* client: when that timer fires next
    tests               \* the connection tests of the database client:
                        \* how many were issued, which are in flight, and
                        \* which have completed, in that order, and how

object == <<initialized, lastActivity, connected, client, listening>>
vars == <<initialized, lastActivity, connected, client, listening, now,
          transport,
          retained, op, args, out, idle, reconnect, requested,
          retainedBefore, deviceConnectedCallback, busTimer, deviceTimer,
          connectedSince, config, statics, intervals, tests>>
database == <<intervals, tests>>
watchdogs == <<deviceConnectedCallback, busTimer, deviceTimer>>

----------------------------------------------------------------------------
(* Bounds of the model.                                                    *)

\* The clock at construction.  Any moment later than outdatedSec after the
\* epoch behaves alike; real clocks are far later.
T0 == 20000
\* The longest the environment lets the clock run in one step.
Step == 5000
\* How long after construction the clock is followed.
MaxElapsed == 20000

(* Program constants.                                                      *)

\* The threshold clients pass as option.outdatedSec.
outdatedSec == 15

Never == 0 - 1

Min(a, b) == IF a <= b THEN a ELSE b

----------------------------------------------------------------------------
(* What an operation leaves in `out`.                                      *)

\* a dispatcher's dispatch()
Signal(name) == [kind |-> "signal", name |-> name]
\* an assignment to a field of the object
Set(name, value) == [kind |-> "set", field |-> name, value |-> value]
\* a warning: onWarning(text) or logger.warn(text)
Warning(text) == [kind |-> "warning", text |-> text]

IsSignal(e, name) == e.kind = "signal" /\ e.name = name

Fired(trace, name) ==
    Cardinality({i \in DOMAIN trace : IsSignal(trace[i], name)})

Warnings(trace) ==
    Cardinality({i \in DOMAIN trace : trace[i].kind = "warning"})

Emit(s, e) == [s EXCEPT !.out = Append(@, e)]

----------------------------------------------------------------------------
(* Strings as the code takes them apart: sequences of characters.          *)

Digit == {"0", "1", "2", "3", "4", "5", "6", "7", "8", "9"}
HexDigit == Digit \cup {"a", "b", "c", "d", "e", "f",
                        "A", "B", "C", "D", "E", "F"}
\* the characters \s matches, of those a payload of the model can hold
Space == {" ", "\t", "\n", "\r"}

DigitChars == <<"0", "1", "2", "3", "4", "5", "6", "7", "8", "9">>
DigitChar(d) == DigitChars[d + 1]
DigitValue(c) == CHOOSE d \in 0..9 : DigitChars[d + 1] = c

RECURSIVE NatToChars(_)
\* String(n) of a non-negative integer
NatToChars(n) ==
    IF n < 10 THEN <<DigitChar(n)>>
    ELSE NatToChars(n \div 10) \o <<DigitChar(n % 10)>>

RECURSIVE Join(_)
\* the template literal `${a}/${b}/...`
Join(segs) ==
    IF Len(segs) = 0 THEN <<>>
    ELSE IF Len(segs) = 1 THEN segs[1]
    ELSE segs[1] \o <<"/">> \o Join(Tail(segs))

RECURSIVE SplitFrom(_, _, _)
SplitFrom(str, i, cur) ==
    IF i > Len(str) THEN <<cur>>
    ELSE IF str[i] = "/" THEN <<cur>> \o SplitFrom(str, i + 1, <<>>)
    ELSE SplitFrom(str, i + 1, Append(cur, str[i]))

\* String.prototype.split('/')
split(str) == SplitFrom(str, 1, <<>>)

\* whether `word` stands in `str` at position i
At(str, i, word) ==
    /\ i + Len(word) - 1 <= Len(str)
    /\ \A k \in 1..Len(word) : str[i + k - 1] = word[k]

----------------------------------------------------------------------------
(* JavaScript values a message carries.  A number is kept in tenths (23.5  *)
(* is 235); what a number literal holds beyond its first fraction digit    *)
(* stays, unread, in str.                                                  *)

StringValue(chars) == [type |-> "string", str |-> chars, num |-> 0]
NumberValue(tenths) == [type |-> "number", str |-> <<>>, num |-> tenths]
BooleanValue(b) ==
    [type |-> "boolean", str |-> <<>>, num |-> IF b THEN 1 ELSE 0]
Undefined == [type |-> "undefined", str |-> <<>>, num |-> 0]
Null == [type |-> "null", str |-> <<>>, num |-> 0]
Object == [type |-> "object", str |-> <<>>, num |-> 0]

\* String(x) of a number given in tenths
NumberToChars(tenths) ==
    LET a == IF tenths < 0 THEN 0 - tenths ELSE tenths
        whole == NatToChars(a \div 10)
        frac == IF a % 10 = 0 THEN <<>> ELSE <<".", DigitChar(a % 10)>>
    IN  (IF tenths < 0 THEN <<"-">> ELSE <<>>) \o whole \o frac

RECURSIVE Escaped(_)
\* the inside of a JSON string literal, as JSON.stringify writes it
Escaped(chars) ==
    IF chars = <<>> THEN <<>>
    ELSE LET c == Head(chars)
             e == CASE c = "\"" -> <<"\\", "\"">>
                    [] c = "\\" -> <<"\\", "\\">>
                    [] c = "\n" -> <<"\\", "n">>
                    [] c = "\r" -> <<"\\", "r">>
                    [] c = "\t" -> <<"\\", "t">>
                    [] OTHER -> <<c>>
         IN  e \o Escaped(Tail(chars))

\* JSON.stringify(v) of a string, number or boolean
StringifyValue(v) ==
    CASE v.type = "string" -> <<"\"">> \o Escaped(v.str) \o <<"\"">>
      [] v.type = "number" -> NumberToChars(v.num)
      [] v.type = "boolean" ->
            IF v.num = 1 THEN <<"t", "r", "u", "e">>
            ELSE <<"f", "a", "l", "s", "e">>

StringifyStatusBody_ValueKey(ts, value) ==
    <<"{", "\"", "t", "s", "\"", ":">> \o NatToChars(ts)
    \o <<",", "\"", "v", "a", "l", "u", "e", "\"", ":">>
    \o StringifyValue(value) \o <<"}">>

\* JSON.stringify({ ts: ts, val: value })
StringifyStatusBody(ts, value) ==
    <<"{", "\"", "t", "s", "\"", ":">> \o NatToChars(ts)
    \o <<",", "\"", "v", "a", "l", "\"", ":">> \o StringifyValue(value)
    \o <<"}">>

\* JSON.stringify({ ts: ts })
StringifyActionBody(ts) ==
    <<"{", "\"", "t", "s", "\"", ":">> \o NatToChars(ts) \o <<"}">>

----------------------------------------------------------------------------
(* MqttBrokerClient.isValidJSON: the four regular expressions, each as the *)
(* scan the regex engine makes, leftmost match first.                      *)

RECURSIVE ScanWhile(_, _, _)
\* the first position from i on whose character is not in `set`
ScanWhile(str, i, set) ==
    IF i <= Len(str) /\ str[i] \in set THEN ScanWhile(str, i + 1, set) ELSE i

RECURSIVE ScanUntil(_, _, _)
\* the first position from i on whose character is in `set`
ScanUntil(str, i, set) ==
    IF i <= Len(str) /\ str[i] \notin set THEN ScanUntil(str, i + 1, set)
    ELSE i

\* /^\s*$/
IsBlank(str) == \A i \in DOMAIN str : str[i] \in Space

RECURSIVE ReplaceEscapes(_, _)
\* replace(/\\(?:["\\/bfnrt]|u[0-9a-fA-F]{4})/g, '@')
ReplaceEscapes(str, i) ==
    IF i > Len(str) THEN <<>>
    ELSE IF /\ str[i] = "\\"
            /\ i + 1 <= Len(str)
            /\ str[i + 1] \in {"\"", "\\", "/", "b", "f", "n", "r", "t"}
    THEN <<"@">> \o ReplaceEscapes(str, i + 2)
    ELSE IF /\ str[i] = "\\"
            /\ i + 5 <= Len(str)
            /\ str[i + 1] = "u"
            /\ \A k \in 2..5 : str[i + k] \in HexDigit
    THEN <<"@">> \o ReplaceEscapes(str, i + 6)
    ELSE <<str[i]>> \o ReplaceEscapes(str, i + 1)

\* "[^"\\\n\r]*" at i: the position after it, 0 if it does not match
StringTokenEnd(str, i) ==
    IF str[i] # "\"" THEN 0
    ELSE LET j == ScanUntil(str, i + 1, {"\"", "\\", "\n", "\r"})
         IN  IF j <= Len(str) /\ str[j] = "\"" THEN j + 1 ELSE 0

\* -?\d+(?:\.\d*)?(?:[eE][+-]?\d+)? at i
NumberTokenEnd(str, i) ==
    LET d0 == IF str[i] = "-" THEN i + 1 ELSE i
        d1 == ScanWhile(str, d0, Digit)
        f  == IF d1 <= Len(str) /\ str[d1] = "."
              THEN ScanWhile(str, d1 + 1, Digit) ELSE d1
        s0 == IF f + 1 <= Len(str) /\ str[f + 1] \in {"+", "-"}
              THEN f + 2 ELSE f + 1
        s1 == ScanWhile(str, s0, Digit)
    IN  IF d1 = d0 THEN 0
        ELSE IF f <= Len(str) /\ str[f] \in {"e", "E"} /\ s1 > s0 THEN s1
        ELSE f

\* the alternatives of the third expression, in their order
TokenEnd(str, i) ==
    IF StringTokenEnd(str, i) > 0 THEN StringTokenEnd(str, i)
    ELSE IF At(str, i, <<"t", "r", "u", "e">>) THEN i + 4
    ELSE IF At(str, i, <<"f", "a", "l", "s", "e">>) THEN i + 5
    ELSE IF At(str, i, <<"n", "u", "l", "l">>) THEN i + 4
    ELSE NumberTokenEnd(str, i)

RECURSIVE ReplaceTokens(_, _)
\* replace(/"[^"\\\n\r]*"|true|false|null|-?\d+(?:\.\d*)?(?:[eE][+-]?\d+)?/g, ']')
ReplaceTokens(str, i) ==
    IF i > Len(str) THEN <<>>
    ELSE IF TokenEnd(str, i) > 0
    THEN <<"]">> \o ReplaceTokens(str, TokenEnd(str, i))
    ELSE <<str[i]>> \o ReplaceTokens(str, i + 1)

RECURSIVE OpenRun(_, _)
\* (?:\s*\[)* from i: the position after its longest match
OpenRun(str, i) ==
    LET k == ScanWhile(str, i, Space)
    IN  IF k <= Len(str) /\ str[k] = "[" THEN OpenRun(str, k + 1) ELSE i

RECURSIVE RemoveOpenings(_, _)
\* replace(/(?:^|:|,)(?:\s*\[)+/g, '')
RemoveOpenings(str, i) ==
    IF i > Len(str) THEN <<>>
    ELSE IF i = 1 /\ OpenRun(str, 1) > 1
    THEN RemoveOpenings(str, OpenRun(str, 1))
    ELSE IF str[i] \in {":", ","} /\ OpenRun(str, i + 1) > i + 1
    THEN RemoveOpenings(str, OpenRun(str, i + 1))
    ELSE <<str[i]>> \o RemoveOpenings(str, i + 1)

isValidJSON(str) ==
    IF IsBlank(str) THEN FALSE
    ELSE LET left == RemoveOpenings(
                         ReplaceTokens(ReplaceEscapes(str, 1), 1), 1)
         IN  \A i \in DOMAIN left :
                 left[i] \in {"]", ",", ":", "{", "}"} \cup Space

----------------------------------------------------------------------------
(* JSON.parse, as far as handleMessage uses its result: whether it throws  *)
(* and, of an object, the member named val.                                *)

ParseFail == [ok |-> FALSE, next |-> 0, v |-> Undefined, val |-> Undefined]
Parsed(next, v, val) == [ok |-> TRUE, next |-> next, v |-> v, val |-> val]

RECURSIVE CharsToNat(_, _, _)
\* the number the digits str[a..b-1] write
CharsToNat(str, a, b) ==
    IF b <= a THEN 0
    ELSE CharsToNat(str, a, b - 1) * 10 + DigitValue(str[b - 1])

RECURSIVE ParseStringBody(_, _, _)
\* a string literal from the character after its opening quote
ParseStringBody(str, i, acc) ==
    IF i > Len(str) THEN ParseFail
    ELSE IF str[i] = "\"" THEN Parsed(i + 1, StringValue(acc), Undefined)
    ELSE IF str[i] \in {"\n", "\r", "\t"} THEN ParseFail
    ELSE IF str[i] # "\\"
    THEN ParseStringBody(str, i + 1, Append(acc, str[i]))
    ELSE IF i + 1 > Len(str) THEN ParseFail
    ELSE IF str[i + 1] \in {"\"", "\\", "/"}
    THEN ParseStringBody(str, i + 2, Append(acc, str[i + 1]))
    ELSE IF str[i + 1] = "n"
    THEN ParseStringBody(str, i + 2, Append(acc, "\n"))
    ELSE IF str[i + 1] = "r"
    THEN ParseStringBody(str, i + 2, Append(acc, "\r"))
    ELSE IF str[i + 1] = "t"
    THEN ParseStringBody(str, i + 2, Append(acc, "\t"))
    ELSE IF str[i + 1] = "b"
    THEN ParseStringBody(str, i + 2, Append(acc, "<BS>"))
    ELSE IF str[i + 1] = "f"
    THEN ParseStringBody(str, i + 2, Append(acc, "<FF>"))
    ELSE IF /\ str[i + 1] = "u"
            /\ i + 5 <= Len(str)
            /\ \A k \in 2..5 : str[i + k] \in HexDigit
    THEN ParseStringBody(str, i + 6, Append(acc, "<U>"))
    ELSE ParseFail

\* a number literal at i: -?(0|[1-9]\d*)(\.\d+)?([eE][+-]?\d+)?
ParseNumber(str, i) ==
    LET d0 == IF str[i] = "-" THEN i + 1 ELSE i
        d1 == IF d0 <= Len(str) /\ str[d0] = "0" THEN d0 + 1
              ELSE ScanWhile(str, d0, Digit)
        hasFrac == d1 <= Len(str) /\ str[d1] = "."
        f  == IF hasFrac THEN ScanWhile(str, d1 + 1, Digit) ELSE d1
        hasExp == f <= Len(str) /\ str[f] \in {"e", "E"}
        s0 == IF f + 1 <= Len(str) /\ str[f + 1] \in {"+", "-"}
              THEN f + 2 ELSE f + 1
        e  == IF hasExp THEN ScanWhile(str, s0, Digit) ELSE f
        tenths == CharsToNat(str, d0, d1) * 10
                  + (IF hasFrac /\ f > d1 + 1 THEN DigitValue(str[d1 + 1])
                     ELSE 0)
        unread == IF hasFrac THEN SubSeq(str, d1 + 2, e - 1)
                  ELSE SubSeq(str, d1, e - 1)
    IN  IF d1 = d0 \/ (hasFrac /\ f = d1 + 1) \/ (hasExp /\ e = s0)
        THEN ParseFail
        ELSE Parsed(e,
                    [type |-> "number", str |-> unread,
                     num |-> IF str[i] = "-" THEN 0 - tenths ELSE tenths],
                    Undefined)

RECURSIVE ParseValue(_, _)
RECURSIVE ParseMembers(_, _, _)
RECURSIVE ParseElements(_, _)

\* a value whose first character is at i
ParseValue(str, i) ==
    IF i > Len(str) THEN ParseFail
    ELSE IF str[i] = "\"" THEN ParseStringBody(str, i + 1, <<>>)
    ELSE IF str[i] = "{"
    THEN LET j == ScanWhile(str, i + 1, Space)
         IN  IF j <= Len(str) /\ str[j] = "}"
             THEN Parsed(j + 1, Object, Undefined)
             ELSE ParseMembers(str, j, Undefined)
    ELSE IF str[i] = "["
    THEN LET j == ScanWhile(str, i + 1, Space)
         IN  IF j <= Len(str) /\ str[j] = "]"
             THEN Parsed(j + 1, Object, Undefined)
             ELSE ParseElements(str, j)
    ELSE IF At(str, i, <<"t", "r", "u", "e">>)
    THEN Parsed(i + 4, BooleanValue(TRUE), Undefined)
    ELSE IF At(str, i, <<"f", "a", "l", "s", "e">>)
    THEN Parsed(i + 5, BooleanValue(FALSE), Undefined)
    ELSE IF At(str, i, <<"n", "u", "l", "l">>)
    THEN Parsed(i + 4, Null, Undefined)
    ELSE IF str[i] \in Digit \cup {"-"} THEN ParseNumber(str, i)
    ELSE ParseFail

\* the members of an object from the first character of a key; val is the
\* member named val read so far
ParseMembers(str, i, val) ==
    IF i > Len(str) \/ str[i] # "\"" THEN ParseFail
    ELSE LET key == ParseStringBody(str, i + 1, <<>>)
             c == ScanWhile(str, key.next, Space)
             m == ParseValue(str, ScanWhile(str, c + 1, Space))
             z == ScanWhile(str, m.next, Space)
             got == IF key.v.str = <<"v", "a", "l">> THEN m.v ELSE val
         IN  IF ~key.ok \/ c > Len(str) \/ str[c] # ":" THEN ParseFail
             ELSE IF ~m.ok \/ z > Len(str) THEN ParseFail
             ELSE IF str[z] = "}" THEN Parsed(z + 1, Object, got)
             ELSE IF str[z] = ","
             THEN ParseMembers(str, ScanWhile(str, z + 1, Space), got)
             ELSE ParseFail

\* the elements of an array from the first character of an element
ParseElements(str, i) ==
    LET m == ParseValue(str, i)
        z == ScanWhile(str, m.next, Space)
    IN  IF ~m.ok \/ z > Len(str) THEN ParseFail
        ELSE IF str[z] = "]" THEN Parsed(z + 1, Object, Undefined)
        ELSE IF str[z] = ","
        THEN ParseElements(str, ScanWhile(str, z + 1, Space))
        ELSE ParseFail

\* JSON.parse(str): ok is false when it throws a SyntaxError
JSONparse(str) ==
    LET r == ParseValue(str, ScanWhile(str, 1, Space))
    IN  IF r.ok /\ ScanWhile(str, r.next, Space) = Len(str) + 1 THEN r
        ELSE ParseFail

----------------------------------------------------------------------------
(* Config: the options of the clients, resolved from the configuration     *)
(* file's content when the Config object is constructed.                   *)

\* typeof v
typeOf(v) == IF v.type = "null" THEN "object" ELSE v.type

Returned(v) == [ok |-> TRUE, value |-> v, error |-> "", type |-> ""]
Failed(error, type) ==
    [ok |-> FALSE, value |-> Undefined, error |-> error, type |-> type]

Return(v) == [kind |-> "return", value |-> v]
\* throw new Error(...)
ThrowError(reference, r) ==
    [kind |-> "throw", error |-> "Error", message |-> r.error,
     reference |-> reference, type |-> r.type]
Log(text) == [kind |-> "log", text |-> text]

useValueOrDefault_Unchecked(reference, value, defaultValue) ==
    IF value # Undefined THEN Returned(value) ELSE Returned(defaultValue)

useValueOrDefault(reference, value, defaultValue) ==
    IF value # Undefined
    THEN IF typeOf(value) # typeOf(defaultValue)
         THEN Failed("Value named ${reference} does not match the type",
                     typeOf(defaultValue))
         ELSE Returned(value)
    ELSE Returned(defaultValue)

useValueOrThrow(reference, value) ==
    IF value = Undefined
    THEN Failed("Required value named ${reference} not specified.", "")
    ELSE Returned(value)

\* the options in the order the constructor resolves them
OptionNames ==
    <<"mqtt.host", "mqtt.port", "influx.host", "influx.port",
      "influx.protocol", "influx.trusted", "influx.token", "influx.org",
      "influx.bucket">>

Defaults(module) ==
    <<StringValue(<<"l", "o", "c", "a", "l", "h", "o", "s", "t">>),
      NumberValue(18830),
      StringValue(<<"l", "o", "c", "a", "l", "h", "o", "s", "t">>),
      NumberValue(4430),
      StringValue(<<"h", "t", "t", "p", "s">>),
      BooleanValue(TRUE),
      StringValue(<<>>),
      StringValue(<<"d", "e", "f", "a", "u", "l", "t">>),
      module>>

\* new Config(module, logLevel, system, config): the values are those of
\* config.mqtt and config.influx in the order of OptionNames
Config(s, module, logLevel, system, values) ==
    LET written ==
            <<Log(module),
              Set("Config.system",
                  IF system # Undefined THEN system ELSE module)>>
            \o (IF logLevel # Undefined
                THEN <<Set("Config.logLevel", logLevel)>> ELSE <<>>)
        resolved ==
            [k \in DOMAIN OptionNames |->
                useValueOrDefault(OptionNames[k], values[k],
                                  Defaults(module)[k])]
        bad == {k \in DOMAIN OptionNames : ~resolved[k].ok}
        first == CHOOSE k \in bad : \A j \in bad : k <= j
    IN  IF bad # {}
        THEN [object |-> s,
              out |-> written
                      \o <<ThrowError(OptionNames[first], resolved[first])>>]
        ELSE [object |-> <<[k \in DOMAIN OptionNames |-> resolved[k].value]>>,
              out |-> written]

----------------------------------------------------------------------------
(* The object's fields while a method runs.  Every method below takes the  *)
(* fields as a record and returns them as the method leaves them.          *)

Cur ==
    [initialized  |-> initialized,
     lastActivity |-> lastActivity,
     connected    |-> connected,
     client       |-> client,
     listening    |-> listening,
     out          |-> <<>>]

----------------------------------------------------------------------------
(* SmartHomeBase                                                           *)

onInitialize_Unlatched(s) ==
    [Emit(Emit(s, Signal("initialize")), Set("initialized", TRUE))
        EXCEPT !.initialized = TRUE]

onInitialize(s) ==
    IF ~s.initialized
    THEN [Emit(Emit(s, Signal("initialize")), Set("initialized", TRUE))
             EXCEPT !.initialized = TRUE]
    ELSE s

isActive_Reversed(s) ==
    s.lastActivity < (now - outdatedSec * 1000)

isActive_Inclusive(s) ==
    (now - outdatedSec * 1000) <= s.lastActivity

isActive(s) ==
    (now - outdatedSec * 1000) < s.lastActivity

onActive_NoRecord(s) ==
    Emit(s, Signal("activity"))

onActive_WhenStale(s) ==
    IF isActive(s) THEN s
    ELSE [Emit(Emit(s, Signal("activity")), Set("lastActivity", now))
             EXCEPT !.lastActivity = now]

\* dispatch(); the constructor's subscriber sets lastActivity = new Date()
onActive(s) ==
    [Emit(Emit(s, Signal("activity")), Set("lastActivity", now))
        EXCEPT !.lastActivity = now]

----------------------------------------------------------------------------
(* SmartHomeClientBase                                                     *)

onConnect_Unguarded(s) ==
    [Emit(Emit(s, Signal("connect")), Set("connected", TRUE))
        EXCEPT !.connected = TRUE]

onConnect(s) ==
    IF ~s.connected
    THEN [Emit(Emit(s, Signal("connect")), Set("connected", TRUE))
             EXCEPT !.connected = TRUE]
    ELSE s

\* what a handler of the application finds when it reads a property
Observed(name, value) == [kind |-> "observed", name |-> name, value |-> value]

onActiveHandled_HandlerFirst(s) ==
    LET dispatching == Emit(s, Signal("activity"))
        handled == Emit(dispatching,
                        Observed("isActive", isActive(dispatching)))
    IN  [Emit(handled, Set("lastActivity", now))
            EXCEPT !.lastActivity = now]

\* onActive() when the application has subscribed a handler of the
\* activity event that reads isActive: the subscriber of the constructor
\* was registered before it and runs before it
onActiveHandled(s) ==
    LET recorded == onActive(s)
    IN  Emit(recorded, Observed("isActive", isActive(recorded)))

RECURSIVE onConnectNested(_, _)
\* onConnect() when a handler of the connect event calls onConnect()
\* itself, `depth` calls deep, while the dispatch is in progress
onConnectNested(s, depth) ==
    IF ~s.connected
    THEN LET dispatching == Emit(s, Signal("connect"))
             handled == IF depth > 0
                        THEN onConnectNested(dispatching, depth - 1)
                        ELSE dispatching
         IN  [Emit(handled, Set("connected", TRUE))
                 EXCEPT !.connected = TRUE]
    ELSE s

onDisconnect_Unguarded(s) ==
    [Emit(Emit(s, Signal("disconnect")), Set("connected", FALSE))
        EXCEPT !.connected = FALSE]

onDisconnect_WriteFirst(s) ==
    IF s.connected
    THEN Emit(Emit([s EXCEPT !.connected = FALSE],
                   Set("connected", FALSE)), Signal("disconnect"))
    ELSE s

onDisconnect(s) ==
    IF s.connected
    THEN [Emit(Emit(s, Signal("disconnect")), Set("connected", FALSE))
             EXCEPT !.connected = FALSE]
    ELSE s

----------------------------------------------------------------------------
(* SmartHomeServerBase                                                     *)

onBind_Unguarded(s) ==
    [Emit(Emit(s, Signal("bind")), Set("listening", TRUE))
        EXCEPT !.listening = TRUE]

onBind(s) ==
    IF ~s.listening
    THEN [Emit(Emit(s, Signal("bind")), Set("listening", TRUE))
             EXCEPT !.listening = TRUE]
    ELSE s

onUnbind(s) ==
    IF s.listening
    THEN [Emit(Emit(s, Signal("unbind")), Set("listening", FALSE))
             EXCEPT !.listening = FALSE]
    ELSE s

----------------------------------------------------------------------------
(* MqttBrokerClient                                                        *)

\* option.system
SystemName ==
    <<"l", "o", "x">>

\* `${this.system}/connected`
LivenessTopic ==
    Join(<<SystemName, <<"c", "o", "n", "n", "e", "c", "t", "e", "d">>>>)

\* calls made to the MQTT client
PublishCall(topic, body, retain, qos) ==
    [kind |-> "publish", topic |-> topic, body |-> body,
     retain |-> retain, qos |-> qos]
SubscribeCall(topic) == [kind |-> "subscribe", topic |-> topic]
ConnectCall ==
    [kind |-> "mqttConnect",
     will |-> [topic |-> LivenessTopic, payload |-> <<"0">>,
               retain |-> TRUE, qos |-> 2]]
On(event) == [kind |-> "on", event |-> event]

\* events with a payload, an error reported, an exception leaving a handler
StatusMessageEvent(m) == [kind |-> "statusMessage", message |-> m]
ActionMessageEvent(m) == [kind |-> "actionMessage", message |-> m]
ErrorEvent(error) == [kind |-> "error", error |-> error]
Throw(error) == [kind |-> "throw", error |-> error]

StatusMessage(system, room, device, feature, value) ==
    [system |-> system, room |-> room, device |-> device,
     feature |-> feature, value |-> value]
ActionMessage(system, room, device, feature, action) ==
    [system |-> system, room |-> room, device |-> device,
     feature |-> feature, action |-> action]

onWarning(s, text) == Emit(s, Warning(text))
\* onWarning(`Unknown message received on topic '${topic}': ${message}`)
UnknownMessage(topic, message) ==
    [kind |-> "warning", text |-> "Unknown message received on topic",
     topic |-> topic, message |-> message]
onError(s, error) == Emit(s, ErrorEvent(error))

publishConnected_Baseline(s, code) ==
    IF s.client # "undefined"
    THEN Emit(s, PublishCall(LivenessTopic, <<"1">>, TRUE, 2))
    ELSE onWarning(s,
        "MQTT broker not initialized, unable to publish the connection state.")

publishConnected_Unretained(s, code) ==
    IF s.client # "undefined"
    THEN Emit(s, PublishCall(LivenessTopic, code, FALSE, 2))
    ELSE onWarning(s,
        "MQTT broker not initialized, unable to publish the connection state.")

publishConnected(s, code) ==
    IF s.client # "undefined"
    THEN Emit(s, PublishCall(LivenessTopic, code, TRUE, 2))
    ELSE onWarning(s,
        "MQTT broker not initialized, unable to publish the connection state.")

initialize_Unguarded(s) ==
    LET opened == [Emit(Emit(s, ConnectCall), Set("client", "handle"))
                      EXCEPT !.client = "handle"]
        wired == Emit(Emit(Emit(Emit(opened, On("connect")),
                                On("close")), On("message")),
                      On("error"))
    IN  onInitialize(wired)

initialize(s) ==
    IF ~s.initialized
    THEN LET opened == [Emit(Emit(s, ConnectCall), Set("client", "handle"))
                           EXCEPT !.client = "handle"]
             wired == Emit(Emit(Emit(Emit(opened, On("connect")),
                                     On("close")), On("message")),
                           On("error"))
         IN  onInitialize(wired)
    ELSE onWarning(s, "MQTT broker already initialized.")

onConnectCallback_EventFirst(s) == publishConnected(onConnect(s), <<"1">>)

\* client.on('connect', ...)
onConnectCallback(s) == onConnect(publishConnected(s, <<"1">>))

onCloseCallback_PublishesOffline(s) ==
    onDisconnect(Emit(s, PublishCall(LivenessTopic, <<"0">>, TRUE, 2)))

onCloseCallback_Ignored(s) == s

\* client.on('close', ...)
onCloseCallback(s) == onDisconnect(s)

onErrorCallback_Disconnects(s, error) == onDisconnect(onError(s, error))

\* client.on('error', ...)
onErrorCallback(s, error) == onError(s, error)

handleMessage_TopicSplit(s, topic, message) ==
    LET topics == split(topic)
    IN  IF Len(topics) = 4 /\ isValidJSON(message)
        THEN IF ~JSONparse(message).ok THEN Emit(s, Throw("SyntaxError"))
             ELSE Emit(s, StatusMessageEvent(
                      StatusMessage(topics[1], topics[2], topics[3],
                                    topics[4], JSONparse(message).val)))
        ELSE IF Len(topics) = 5
        THEN Emit(s, ActionMessageEvent(
                 ActionMessage(topics[1], topics[2], topics[3], topics[4],
                               topics[5])))
        ELSE Emit(s, UnknownMessage(topic, message))

handleMessage(s, topic, message) ==
    LET topics == split(message)
    IN  IF Len(topics) = 4 /\ isValidJSON(message)
        THEN \* JSON.parse(message).val is read before the event is built
             IF ~JSONparse(message).ok THEN Emit(s, Throw("SyntaxError"))
             ELSE Emit(s, StatusMessageEvent(
                      StatusMessage(topics[1], topics[2], topics[3],
                                    topics[4], JSONparse(message).val)))
        ELSE IF Len(topics) = 5
        THEN Emit(s, ActionMessageEvent(
                 ActionMessage(topics[1], topics[2], topics[3], topics[4],
                               topics[5])))
        ELSE Emit(s, UnknownMessage(topic, message))

\* client.on('message', ...)
onMessageCallback(s, topic, message) == handleMessage(s, topic, message)

\* an argument left out of a call
Omitted == <<"<omitted>">>
Arg(given, default) == IF given = Omitted THEN default ELSE given

ActionFilter(system, room, device, feature, action) ==
    Join(<<Arg(system, SystemName), Arg(room, <<"+">>),
           Arg(device, <<"+">>), Arg(feature, <<"+">>),
           Arg(action, <<"+">>)>>)

StatusFilter_AnySystem(system, room, device, feature) ==
    Join(<<Arg(system, <<"+">>), Arg(room, <<"+">>),
           Arg(device, <<"+">>), Arg(feature, <<"+">>)>>)

StatusFilter(system, room, device, feature) ==
    Join(<<Arg(system, SystemName), Arg(room, <<"+">>),
           Arg(device, <<"+">>), Arg(feature, <<"+">>)>>)

subscribeAction(s, system, room, device, feature, action) ==
    IF s.client # "undefined"
    THEN Emit(s, SubscribeCall(
             ActionFilter(system, room, device, feature, action)))
    ELSE onWarning(s,
        "MQTT broker not initialized, unable to subscribe to action message.")

subscribeStatus(s, system, room, device, feature) ==
    IF s.client # "undefined"
    THEN Emit(s, SubscribeCall(StatusFilter(system, room, device, feature)))
    ELSE onWarning(s,
        "MQTT broker not initialized, unable to subscribe to status message.")

\* the retain parameter: "omitted", "true" or "false"
Retain_UnlessFalse(retain) == retain # "false"

\* retain = false: the flag is false unless true is given
Retain(retain) == retain = "true"

ActionTopic(m) ==
    Join(<<m.system, m.room, m.device, m.feature, m.action>>)

StatusTopic(m) == Join(<<m.system, m.room, m.device, m.feature>>)

publishAction(s, message, retain) ==
    IF s.client # "undefined"
    THEN Emit(s, PublishCall(ActionTopic(message), StringifyActionBody(now),
                             Retain(retain), 2))
    ELSE onWarning(s,
        "MQTT broker not initialized, unable to publish the action message.")

publishStatus(s, message, retain) ==
    IF s.client # "undefined"
    THEN Emit(s, PublishCall(StatusTopic(message),
                             StringifyStatusBody(now, message.value),
                             Retain(retain), 2))
    ELSE onWarning(s,
        "MQTT broker not initialized, unable to publish the status message.")

----------------------------------------------------------------------------
(* What the operations are called with.                                    *)

Loxone ==
    <<"l", "o", "x", "o", "n", "e">>
Kitchen ==
    <<"k", "i", "t", "c", "h", "e", "n">>
TouchSwitch ==
    <<"t", "o", "u", "c", "h", "-", "s", "w", "i", "t", "c", "h">>
Temperature ==
    <<"t", "e", "m", "p", "e", "r", "a", "t", "u", "r", "e">>
Mystrom ==
    <<"m", "y", "s", "t", "r", "o", "m">>
Bedroom ==
    <<"b", "e", "d", "r", "o", "o", "m">>
Switch01 ==
    <<"s", "w", "i", "t", "c", "h", "-", "0", "1">>
Relay ==
    <<"r", "e", "l", "a", "y">>
Toggle ==
    <<"t", "o", "g", "g", "l", "e">>

StatusMessages ==
    {StatusMessage(Loxone, Kitchen, TouchSwitch, Temperature,
                   NumberValue(235)),
     StatusMessage(Mystrom, Bedroom, Switch01, Relay, BooleanValue(TRUE)),
     StatusMessage(Mystrom, Bedroom, Switch01, Relay,
                   StringValue(<<"a", "/", "b", "/", "c", "/", "d">>))}

ActionMessages ==
    {ActionMessage(Mystrom, Bedroom, Switch01, Relay, Toggle)}

RetainArgs == {"omitted", "true", "false"}

\* payloads the broker delivers besides the client's own publishes
Payloads ==
    {Join(<<Mystrom, Bedroom, Switch01, Relay, Toggle>>),
     Join(<<Mystrom, Bedroom, Switch01, Relay>>),
     Join(<<Mystrom, Bedroom, Switch01, Relay, Toggle, Toggle>>),
     <<"{", "\"", "v", "a", "l", "\"", ":", "\"", "a", "/", "b", "/", "c",
     "/", "d", "\"", "}">>,
     <<"{", "\"", "a", "/", "b", "/", "c", "/", "d", "\"", "}">>,
     <<"\"", "a", "/", "b", "/", "c", "/", "d", "\"">>,
     <<"\"", "a", "/", "b", "/", "c", "/", "d", "/", "e", "\"">>,
     <<>>}

\* the (topic, payload) pairs delivered: the payloads above on a topic of
\* the client's system, and every status or action publish of the client
\* coming back to it as the broker forwards it
InboundMessages ==
    {[topic |-> Join(<<SystemName, Kitchen, TouchSwitch, Temperature>>),
      payload |-> p] : p \in Payloads}
    \cup {[topic |-> StatusTopic(m),
           payload |-> StringifyStatusBody(now, m.value)] :
              m \in StatusMessages}
    \cup {[topic |-> ActionTopic(m), payload |-> StringifyActionBody(now)] :
              m \in ActionMessages}

\* arguments given to subscribeStatus / subscribeAction
RoomArgs == {Kitchen}
ActionArgs == {Toggle}

\* how many subscribe requests are followed
MaxSubs == 2

----------------------------------------------------------------------------
(* Operations as steps: the method runs on the object's fields and what it *)
(* leaves is written back, with the record of what it did.                 *)

Max(S) == CHOOSE x \in S : \A y \in S : y <= x

\* the code the broker retains on the liveness topic after `trace`
Retained(trace, before) ==
    LET hits == {i \in DOMAIN trace :
                    trace[i].kind = "publish"
                    /\ trace[i].topic = LivenessTopic
                    /\ trace[i].retain}
    IN  IF hits = {} THEN before ELSE trace[Max(hits)].body

Effect(s, name, a) ==
    /\ initialized' = s.initialized
    /\ lastActivity' = s.lastActivity
    /\ connected' = s.connected
    /\ client' = s.client
    /\ listening' = s.listening
    /\ out' = s.out
    /\ op' = name
    /\ args' = a
    /\ idle' = IF Fired(s.out, "activity") > 0 THEN 0 ELSE idle
    /\ retainedBefore' = retained
    /\ retained' = Retained(s.out, retained)

Commit(s, name, a) ==
    /\ Effect(s, name, a)
    /\ UNCHANGED <<config, statics, database>>

Init ==
    /\ initialized = FALSE
    /\ lastActivity = 0
    /\ connected = FALSE
    /\ client = "undefined"
    /\ listening = FALSE
    /\ now = T0
    /\ transport = "idle"
    /\ retained = <<>>
    /\ op = "new"
    /\ args = <<>>
    /\ out = <<>>
    /\ idle = Never
    /\ reconnect = FALSE
    /\ requested = <<>>
    /\ retainedBefore = <<>>
    /\ deviceConnectedCallback = "unset"
    /\ busTimer = Never
    /\ deviceTimer = Never
    /\ connectedSince = Never
    /\ config = <<>>
    /\ statics = [system |-> Undefined,
                  logLevel |-> StringValue(<<"i", "n", "f", "o">>)]
    /\ intervals = <<>>
    /\ tests = [issued |-> 0, pending |-> {}, completed |-> <<>>]

AdvanceClock ==
    /\ now < T0 + MaxElapsed
    /\ now' = Min(now + Step, T0 + MaxElapsed)
    /\ idle' = IF idle = Never THEN Never ELSE idle + (now' - now)
    /\ op' = "clock"
    /\ args' = <<>>
    /\ out' = <<>>
    /\ retainedBefore' = retained
    /\ UNCHANGED <<object, transport, retained, reconnect, requested,
                   watchdogs, connectedSince, config,
                   statics,
                   database>>

----------------------------------------------------------------------------
(* The start of a process: it may call the two static helpers on values   *)
(* of its own, and constructs its Config once; an error thrown by the      *)
(* constructor ends the start.                                             *)

ModuleName == StringValue(<<"a", "p", "p">>)

\* what a configuration file can hold for an option: nothing, null, a
\* value of the option's type, or a value of another type
GivenSeq(default) ==
    <<Undefined, Null,
      IF default.type = "string" THEN StringValue(<<"x">>)
      ELSE IF default.type = "number" THEN NumberValue(80)
      ELSE BooleanValue(FALSE),
      IF default.type = "number" THEN StringValue(<<"8", "0">>)
      ELSE NumberValue(10)>>

Given(default) == {GivenSeq(default)[i] : i \in 1..4}

\* how many of the options, from the first one on, the configuration
\* file may hold; it leaves the others out
MaxGiven == 4

ConfigValues ==
    LET n == Len(OptionNames)
        held == {k \in 1..n : k <= MaxGiven}
    IN  {[k \in 1..n |->
            IF k \in held THEN GivenSeq(Defaults(ModuleName)[k])[g[k]]
            ELSE Undefined] : g \in [held -> 1..4]}

\* the static fields after the writes recorded in `trace`
StaticsAfter(trace, before) ==
    LET Last(field, old) ==
            LET hits == {i \in DOMAIN trace :
                            trace[i].kind = "set" /\ trace[i].field = field}
            IN  IF hits = {} THEN old ELSE trace[Max(hits)].value
    IN  [system |-> Last("Config.system", before.system),
         logLevel |-> Last("Config.logLevel", before.logLevel)]

Starting == op \in {"new", "useValueOrDefault", "useValueOrThrow"}

NewConfig ==
    /\ Starting
    /\ config = <<>>
    /\ \E values \in ConfigValues,
          system \in {Undefined, StringValue(SystemName)},
          logLevel \in {Undefined, StringValue(<<"d", "e", "b", "u", "g">>)} :
          LET r == Config(config, ModuleName, logLevel, system, values)
          IN  /\ config' = r.object
              /\ statics' = StaticsAfter(r.out, statics)
              /\ out' = r.out
              /\ args' = <<ModuleName, logLevel, system, values>>
    /\ op' = "newConfig"
    /\ retainedBefore' = retained
    /\ UNCHANGED <<object, now, transport, retained, idle, reconnect,
                   requested, watchdogs, connectedSince, database>>

\* the outcome of a static helper: what it returns or throws
Outcome(reference, r) ==
    IF r.ok THEN <<Return(r.value)>> ELSE <<ThrowError(reference, r)>>

CallUseValueOrDefault ==
    /\ Starting
    /\ \E default \in {StringValue(<<"h", "t", "t", "p", "s">>),
                       NumberValue(4430), BooleanValue(TRUE)} :
          \E value \in Given(default) :
             /\ out' = Outcome("option",
                               useValueOrDefault("option", value, default))
             /\ args' = <<"option", value, default>>
    /\ op' = "useValueOrDefault"
    /\ retainedBefore' = retained
    /\ UNCHANGED <<object, now, transport, retained, idle, reconnect,
                   requested, watchdogs, connectedSince, config,
                   statics,
                   database>>

CallUseValueOrThrow ==
    /\ Starting
    /\ \E value \in Given(StringValue(<<>>)) :
          /\ out' = Outcome("option", useValueOrThrow("option", value))
          /\ args' = <<"option", value>>
    /\ op' = "useValueOrThrow"
    /\ retainedBefore' = retained
    /\ UNCHANGED <<object, now, transport, retained, idle, reconnect,
                   requested, watchdogs, connectedSince, config,
                   statics,
                   database>>

NextConfig ==
    \/ NewConfig
    \/ CallUseValueOrDefault
    \/ CallUseValueOrThrow

SpecConfig == Init /\ [][NextConfig]_vars

\* a process that constructs further Config objects after its first
NewConfigAgain ==
    /\ config # <<>>
    /\ \E system \in {Undefined, StringValue(SystemName),
                       StringValue(Mystrom)},
          logLevel \in {Undefined, StringValue(<<"d", "e", "b", "u", "g">>),
                        StringValue(<<"e", "r", "r", "o", "r">>)} :
          LET values == [k \in DOMAIN OptionNames |-> Undefined]
              r == Config(config, ModuleName, logLevel, system, values)
          IN  /\ config' = r.object
              /\ statics' = StaticsAfter(r.out, statics)
              /\ out' = r.out
              /\ args' = <<ModuleName, logLevel, system, values>>
    /\ op' = "newConfig"
    /\ retainedBefore' = retained
    /\ UNCHANGED <<object, now, transport, retained, idle, reconnect,
                   requested, watchdogs, connectedSince, database>>

NextConfigs ==
    \/ NextConfig
    \/ NewConfigAgain

SpecConfigs == Init /\ [][NextConfigs]_vars

----------------------------------------------------------------------------
(* A peer-role instance on its own: a subclass calling the protected       *)
(* methods of SmartHomeBase and SmartHomeClientBase in any order.          *)

CallOnInitialize ==
    /\ Commit(onInitialize(Cur), "onInitialize", <<>>)
    /\ UNCHANGED <<now, transport, reconnect, requested, watchdogs,
                   connectedSince>>

CallOnActive ==
    /\ Commit(onActive(Cur), "onActive", <<>>)
    /\ UNCHANGED <<now, transport, reconnect, requested, watchdogs,
                   connectedSince>>

CallOnConnect ==
    /\ Commit(onConnect(Cur), "onConnect", <<>>)
    /\ UNCHANGED <<now, transport, reconnect, requested, watchdogs,
                   connectedSince>>

CallOnDisconnect ==
    /\ Commit(onDisconnect(Cur), "onDisconnect", <<>>)
    /\ UNCHANGED <<now, transport, reconnect, requested, watchdogs,
                   connectedSince>>

\* the application reads the isActive property
ReadIsActive ==
    /\ Commit(Emit(Cur, Return(isActive(Cur))), "isActive", <<>>)
    /\ UNCHANGED <<now, transport, reconnect, requested, watchdogs,
                   connectedSince>>

NextPeer ==
    \/ CallOnInitialize
    \/ CallOnActive
    \/ CallOnConnect
    \/ CallOnDisconnect
    \/ ReadIsActive
    \/ AdvanceClock

SpecPeer == Init /\ [][NextPeer]_vars

\* how deep a handler's own onConnect() calls nest
MaxNesting == 1

\* onConnect() with a subscribed handler that calls onConnect()
CallOnConnectNested ==
    /\ \E depth \in 1..MaxNesting :
          Commit(onConnectNested(Cur, depth), "onConnect", <<depth>>)
    /\ UNCHANGED <<now, transport, reconnect, requested, watchdogs,
                   connectedSince>>

CallOnActiveHandled ==
    /\ Commit(onActiveHandled(Cur), "onActive", <<"handled">>)
    /\ UNCHANGED <<now, transport, reconnect, requested, watchdogs,
                   connectedSince>>

NextPeerHandlers ==
    \/ NextPeer
    \/ CallOnConnectNested
    \/ CallOnActiveHandled

SpecPeerHandlers == Init /\ [][NextPeerHandlers]_vars

----------------------------------------------------------------------------
(* A listener-role instance on its own: a subclass of SmartHomeServerBase  *)
(* calling the protected methods in any order.                             *)

CallOnBind ==
    /\ Commit(onBind(Cur), "onBind", <<>>)
    /\ UNCHANGED <<now, transport, reconnect, requested, watchdogs,
                   connectedSince>>

CallOnUnbind ==
    /\ Commit(onUnbind(Cur), "onUnbind", <<>>)
    /\ UNCHANGED <<now, transport, reconnect, requested, watchdogs,
                   connectedSince>>

NextServer ==
    \/ CallOnInitialize
    \/ CallOnActive
    \/ CallOnBind
    \/ CallOnUnbind
    \/ AdvanceClock

SpecServer == Init /\ [][NextServer]_vars

\* the protected methods of the base classes, those of the peer role and
\* those of the listener role, called in any order
NextRoles ==
    \/ NextPeerHandlers
    \/ NextServer

SpecRoles == Init /\ [][NextRoles]_vars

----------------------------------------------------------------------------
(* The MQTT broker client: the application's calls and the transport's     *)
(* callbacks, each run to completion.  The callbacks exist once            *)
(* initialize() has registered them.                                       *)

Initialize ==
    /\ Commit(initialize(Cur), "initialize", <<>>)
    /\ UNCHANGED <<now, transport, reconnect, requested, watchdogs,
                   connectedSince>>

TransportConnect ==
    /\ client = "handle"
    /\ Commit(onConnectCallback(Cur), "connect", <<>>)
    /\ transport' = "connected"
    /\ reconnect' = (transport = "closed")
    /\ connectedSince' = IF transport = "connected" THEN connectedSince
                         ELSE now
    /\ UNCHANGED <<now, requested, watchdogs>>

TransportClose ==
    /\ client = "handle"
    /\ Commit(onCloseCallback(Cur), "close", <<>>)
    /\ transport' = "closed"
    /\ connectedSince' = Never
    /\ UNCHANGED <<now, reconnect, requested, watchdogs>>

TransportMessage ==
    /\ client = "handle"
    /\ transport = "connected"
    /\ \E m \in InboundMessages :
          Commit(onMessageCallback(Cur, m.topic, m.payload), "message",
                 <<m.topic, m.payload>>)
    /\ UNCHANGED <<now, transport, reconnect, requested, watchdogs,
                   connectedSince>>

TransportError ==
    /\ client = "handle"
    /\ Commit(onErrorCallback(Cur, "Error"), "error", <<>>)
    /\ UNCHANGED <<now, transport, reconnect, requested, watchdogs,
                   connectedSince>>

\* a request counts as made when it reached the MQTT client
Request(filter) ==
    requested' = IF client = "handle" THEN Append(requested, filter)
                 ELSE requested

SubscribeStatus ==
    /\ Len(requested) < MaxSubs
    /\ \E room \in RoomArgs :
          /\ Commit(subscribeStatus(Cur, Omitted, room, Omitted, Omitted),
                    "subscribeStatus", <<Omitted, room, Omitted, Omitted>>)
          /\ Request(StatusFilter(Omitted, room, Omitted, Omitted))
    /\ UNCHANGED <<now, transport, reconnect, watchdogs, connectedSince>>

SubscribeAction ==
    /\ Len(requested) < MaxSubs
    /\ \E action \in ActionArgs :
          /\ Commit(subscribeAction(Cur, Omitted, Omitted, Omitted, Omitted,
                                    action),
                    "subscribeAction",
                    <<Omitted, Omitted, Omitted, Omitted, action>>)
          /\ Request(ActionFilter(Omitted, Omitted, Omitted, Omitted,
                                  action))
    /\ UNCHANGED <<now, transport, reconnect, watchdogs, connectedSince>>

\* the subscribe methods with every choice of given and omitted arguments
GivenOrOmitted(segment) == {Omitted, segment}

SubscribeStatusWith ==
    /\ Len(requested) < MaxSubs
    /\ \E system \in GivenOrOmitted(Mystrom), room \in GivenOrOmitted(Bedroom),
          device \in GivenOrOmitted(Switch01),
          feature \in GivenOrOmitted(Relay) :
          /\ Commit(subscribeStatus(Cur, system, room, device, feature),
                    "subscribeStatus", <<system, room, device, feature>>)
          /\ Request(StatusFilter(system, room, device, feature))
    /\ UNCHANGED <<now, transport, reconnect, watchdogs, connectedSince>>

SubscribeActionWith ==
    /\ Len(requested) < MaxSubs
    /\ \E system \in GivenOrOmitted(Mystrom), room \in GivenOrOmitted(Bedroom),
          device \in GivenOrOmitted(Switch01),
          feature \in GivenOrOmitted(Relay),
          action \in GivenOrOmitted(Toggle) :
          /\ Commit(subscribeAction(Cur, system, room, device, feature,
                                    action),
                    "subscribeAction",
                    <<system, room, device, feature, action>>)
          /\ Request(ActionFilter(system, room, device, feature, action))
    /\ UNCHANGED <<now, transport, reconnect, watchdogs, connectedSince>>

NextSubscribe ==
    \/ Initialize
    \/ SubscribeStatusWith
    \/ SubscribeActionWith

SpecSubscribe == Init /\ [][NextSubscribe]_vars

PublishStatus ==
    /\ \E m \in StatusMessages, r \in RetainArgs :
          Commit(publishStatus(Cur, m, r), "publishStatus", <<m, r>>)
    /\ UNCHANGED <<now, transport, reconnect, requested, watchdogs,
                   connectedSince>>

PublishAction ==
    /\ \E m \in ActionMessages, r \in RetainArgs :
          Commit(publishAction(Cur, m, r), "publishAction", <<m, r>>)
    /\ UNCHANGED <<now, transport, reconnect, requested, watchdogs,
                   connectedSince>>

\* onInitialize() when the application has subscribed a handler of the
\* initialize event that calls subscribeStatus()
onInitializeHandled(s) ==
    IF ~s.initialized
    THEN LET dispatching == Emit(s, Signal("initialize"))
             handled == subscribeStatus(dispatching, Omitted, Omitted,
                                        Omitted, Omitted)
         IN  [Emit(handled, Set("initialized", TRUE))
                 EXCEPT !.initialized = TRUE]
    ELSE s

\* initialize() of a client with that handler
initializeHandled(s) ==
    IF ~s.initialized
    THEN LET opened == [Emit(Emit(s, ConnectCall), Set("client", "handle"))
                           EXCEPT !.client = "handle"]
             wired == Emit(Emit(Emit(Emit(opened, On("connect")),
                                     On("close")), On("message")),
                           On("error"))
         IN  onInitializeHandled(wired)
    ELSE onWarning(s, "MQTT broker already initialized.")

InitializeHandled ==
    /\ Len(requested) < MaxSubs
    /\ Commit(initializeHandled(Cur), "initialize", <<"handled">>)
    /\ requested' = IF initialized THEN requested
                    ELSE Append(requested, StatusFilter(Omitted, Omitted,
                                                        Omitted, Omitted))
    /\ UNCHANGED <<now, transport, reconnect, watchdogs, connectedSince>>

PublishConnected ==
    /\ \E code \in {<<"1">>, <<"2">>} :
          Commit(publishConnected(Cur, code), "publishConnected", <<code>>)
    /\ UNCHANGED <<now, transport, reconnect, requested, watchdogs,
                   connectedSince>>

Next ==
    \/ Initialize
    \/ TransportConnect
    \/ TransportClose
    \/ TransportMessage
    \/ TransportError
    \/ SubscribeStatus
    \/ SubscribeAction
    \/ PublishStatus
    \/ PublishAction
    \/ PublishConnected
    \/ AdvanceClock

Spec == Init /\ [][Next]_vars

\* the client whose application subscribes from a handler of the
\* initialize event
NextHandled ==
    \/ InitializeHandled
    \/ Initialize
    \/ TransportConnect
    \/ TransportClose
    \/ SubscribeStatus
    \/ PublishConnected
    \/ AdvanceClock

SpecHandled == Init /\ [][NextHandled]_vars

----------------------------------------------------------------------------
(* The two watchdog timers of the client and the predicate the application *)
(* registers for the device: described for the released client, started by *)
(* initialize() next to the transport callbacks.                           *)

\* the interval of both timers, in milliseconds
Interval == 10000

\* initialize(), which on its first run also starts the two timers
InitializeWithTimers ==
    /\ Commit(initialize(Cur), "initialize", <<>>)
    /\ busTimer' = IF initialized THEN busTimer ELSE now + Interval
    /\ deviceTimer' = IF initialized THEN deviceTimer ELSE now + Interval
    /\ UNCHANGED <<now, transport, reconnect, requested,
                   deviceConnectedCallback, connectedSince>>

SetDeviceConnectedCallback ==
    /\ Commit(Cur, "setDeviceConnectedCallback", <<>>)
    /\ deviceConnectedCallback' = "set"
    /\ UNCHANGED <<now, transport, reconnect, requested, busTimer,
                   deviceTimer, connectedSince>>

\* bus health: the transport-level connected flag decides
BusHealthTick ==
    /\ busTimer # Never
    /\ now >= busTimer
    /\ Commit(IF transport = "connected" THEN onActive(Cur) ELSE Cur,
              "busHealthTick", <<>>)
    /\ busTimer' = busTimer + Interval
    /\ UNCHANGED <<now, transport, reconnect, requested,
                   deviceConnectedCallback, deviceTimer, connectedSince>>

\* device liveness: what the predicate answers is the application's
DeviceLivenessTick ==
    /\ deviceTimer # Never
    /\ now >= deviceTimer
    /\ \E result \in BOOLEAN :
          Commit(publishConnected(Cur, IF result THEN <<"2">> ELSE <<"1">>),
                 "deviceLivenessTick", <<result>>)
    /\ deviceTimer' = deviceTimer + Interval
    /\ UNCHANGED <<now, transport, reconnect, requested,
                   deviceConnectedCallback, busTimer, connectedSince>>

Due(timer) == timer # Never /\ now >= timer

\* time passes up to the next moment a timer is due; a due timer fires
\* before time moves on
TimerClock ==
    /\ now < T0 + MaxElapsed
    /\ ~Due(busTimer)
    /\ ~Due(deviceTimer)
    /\ now' = LET until == {now + Step, T0 + MaxElapsed}
                           \cup ({busTimer, deviceTimer} \ {Never})
              IN  CHOOSE x \in until : \A y \in until : x <= y
    /\ idle' = IF idle = Never THEN Never ELSE idle + (now' - now)
    /\ op' = "clock"
    /\ args' = <<>>
    /\ out' = <<>>
    /\ retainedBefore' = retained
    /\ UNCHANGED <<object, transport, retained, reconnect, requested,
                   watchdogs, connectedSince, config,
                   statics,
                   database>>

NextWatchdog ==
    \/ InitializeWithTimers
    \/ SetDeviceConnectedCallback
    \/ TransportConnect
    \/ TransportClose
    \/ BusHealthTick
    \/ DeviceLivenessTick
    \/ TimerClock

SpecWatchdog == Init /\ [][NextWatchdog]_vars

\* the client with its timers, its transport's callbacks and the
\* application's subscribe and publish calls, in every order
NextInterleaved ==
    \/ InitializeWithTimers
    \/ TransportConnect
    \/ TransportClose
    \/ TransportMessage
    \/ TransportError
    \/ SubscribeStatus
    \/ PublishAction
    \/ PublishConnected
    \/ BusHealthTick
    \/ DeviceLivenessTick
    \/ TimerClock

SpecInterleaved == Init /\ [][NextInterleaved]_vars

----------------------------------------------------------------------------
(* InfluxDbClient: the client of the database.  Its connection test is a   *)
(* query whose answer comes in a later callback; initialize() issues one   *)
(* test at once and one more every time its interval timer fires.          *)

\* setInterval(..., 10000)
TestInterval == 10000

QueryCall == [kind |-> "queryRaw", query |-> "buckets()"]
SetIntervalCall(ms) == [kind |-> "setInterval", ms |-> ms]
WritePointCall(point) == [kind |-> "writePoint", point |-> point]

testConnection(s) ==
    IF s.initialized /\ s.client # "undefined"
    THEN Emit(s, QueryCall)
    ELSE Emit(s, Log("Not initialized, unable to test connection."))

\* .then(() => ...)
testConnectionThen(s) ==
    onActive(onConnect(
        Emit(s, Log("InfluxDB connection test was successful."))))

testConnectionCatch_MarksActivity(s) ==
    onActive(onDisconnect(
        Emit(Emit(s, Log("InfluxDB connection test has failed.")),
             Log("error"))))

\* .catch((error) => ...)
testConnectionCatch(s) ==
    onDisconnect(
        Emit(Emit(s, Log("InfluxDB connection test has failed.")),
             Log("error")))

InfluxDbClient_initialize_Unguarded(s) ==
    LET created == [Emit(s, Set("client", "handle"))
                       EXCEPT !.client = "handle"]
    IN  Emit(testConnection(onInitialize(created)),
             SetIntervalCall(TestInterval))

InfluxDbClient_initialize(s) ==
    IF ~s.initialized
    THEN LET created == [Emit(s, Set("client", "handle"))
                            EXCEPT !.client = "handle"]
         IN  Emit(testConnection(onInitialize(created)),
                  SetIntervalCall(TestInterval))
    ELSE Emit(s, Log("Already initialized."))

generatePoint(message) ==
    [measurement |-> "smarthome", room |-> message.room,
     device |-> message.device,
     fields |-> IF message.value.type \in {"string", "number", "boolean"}
                THEN <<[name |-> message.feature, value |-> message.value]>>
                ELSE <<>>]

write(s, message) ==
    IF s.initialized /\ s.client # "undefined"
    THEN onActive(Emit(Emit(s, Log("Write a point to the database")),
                       WritePointCall(generatePoint(message))))
    ELSE Emit(s, Log("Not initialized, unable to write measurement."))

DatabaseStep_StopsOnFailure(s, name, a, timers, done, outcome) ==
    LET started == SelectSeq(s.out, LAMBDA e : e.kind = "setInterval")
        issued == Cardinality({i \in DOMAIN s.out : s.out[i] = QueryCall})
    IN  /\ Effect(s, name, a)
        /\ intervals' = IF outcome = "closed" /\ name = "testRejects"
                        THEN <<>>
                        ELSE timers \o [i \in 1..Len(started) |->
                                           now + started[i].ms]
        /\ tests' = [issued |-> tests.issued + issued,
                     pending |-> (tests.pending \ done) \cup
                                 ((tests.issued + 1)..
                                      (tests.issued + issued)),
                     completed |->
                         IF done = {} THEN tests.completed
                         ELSE Append(tests.completed,
                                     [id |-> CHOOSE id \in done : TRUE,
                                      outcome |-> outcome])]
        /\ transport' = outcome
        /\ reconnect' = IF outcome = transport THEN reconnect
                        ELSE (outcome = "connected" /\ transport = "closed")
        /\ UNCHANGED <<config, statics, now, requested, watchdogs,
                       connectedSince>>

\* what an operation of the database client leaves: its record, the
\* timers with those it started, the tests in flight without those in
\* `done` and with those it issued; `outcome` is how the last completed
\* test ended
DatabaseStep(s, name, a, timers, done, outcome) ==
    LET started == SelectSeq(s.out, LAMBDA e : e.kind = "setInterval")
        issued == Cardinality({i \in DOMAIN s.out : s.out[i] = QueryCall})
    IN  /\ Effect(s, name, a)
        /\ intervals' = timers \o [i \in 1..Len(started) |->
                                      now + started[i].ms]
        /\ tests' = [issued |-> tests.issued + issued,
                     pending |-> (tests.pending \ done) \cup
                                 ((tests.issued + 1)..
                                      (tests.issued + issued)),
                     completed |->
                         IF done = {} THEN tests.completed
                         ELSE Append(tests.completed,
                                     [id |-> CHOOSE id \in done : TRUE,
                                      outcome |-> outcome])]
        /\ transport' = outcome
        /\ reconnect' = IF outcome = transport THEN reconnect
                        ELSE (outcome = "connected" /\ transport = "closed")
        /\ UNCHANGED <<config, statics, now, requested, watchdogs,
                       connectedSince>>

InfluxInitialize ==
    DatabaseStep(InfluxDbClient_initialize(Cur), "initialize", <<>>,
                 intervals, {}, transport)

\* an interval timer fires
TestConnectionTick ==
    \E i \in DOMAIN intervals :
        /\ now >= intervals[i]
        /\ DatabaseStep(testConnection(Cur), "testConnectionTick", <<i>>,
                        [intervals EXCEPT ![i] = @ + TestInterval], {},
                        transport)

\* the query of a test in flight is answered
TestResolves ==
    \E id \in tests.pending :
        DatabaseStep(testConnectionThen(Cur), "testResolves", <<id>>,
                     intervals, {id}, "connected")

\* the query of a test in flight fails
TestRejects ==
    \E id \in tests.pending :
        DatabaseStep(testConnectionCatch(Cur), "testRejects", <<id>>,
                     intervals, {id}, "closed")

InfluxWrite ==
    \E m \in StatusMessages :
        DatabaseStep(write(Cur, m), "write", <<m>>, intervals, {}, transport)

\* time passes up to the next moment a timer is due; a due timer fires
\* before time moves on
InfluxClock ==
    /\ now < T0 + MaxElapsed
    /\ \A i \in DOMAIN intervals : now < intervals[i]
    /\ now' = LET until == {now + Step, T0 + MaxElapsed}
                           \cup {intervals[i] : i \in DOMAIN intervals}
              IN  CHOOSE x \in until : \A y \in until : x <= y
    /\ idle' = IF idle = Never THEN Never ELSE idle + (now' - now)
    /\ op' = "clock"
    /\ args' = <<>>
    /\ out' = <<>>
    /\ retainedBefore' = retained
    /\ UNCHANGED <<object, transport, retained, reconnect, requested,
                   watchdogs, connectedSince, config, statics,
                   database>>

NextInflux ==
    \/ InfluxInitialize
    \/ TestConnectionTick
    \/ TestResolves
    \/ TestRejects
    \/ InfluxWrite
    \/ InfluxClock

SpecInflux == Init /\ [][NextInflux]_vars

\* timers fire when they are due and the clock does not stop before the
\* end of the time followed; a query may stay unanswered
SpecInfluxLive ==
    SpecInflux /\ WF_vars(InfluxClock) /\ WF_vars(TestConnectionTick)

----------------------------------------------------------------------------
(* InfluxDbClient as modules/InfluxDbClient.ts has it: the interval timer  *)
(* is given the method itself, setInterval(this.testConnection, 10000),    *)
(* so a tick runs it with the timer, not the client, as `this`.            *)

\* testConnection() run with `self` as `this`; the timer has neither an
\* isInitialized property nor an onWarning method, so the call of
\* this.onWarning(...) in the else branch throws a TypeError
testConnectionAs(self, s) ==
    IF self = "client"
    THEN IF s.initialized /\ s.client # "undefined"
         THEN Emit(s, QueryCall)
         ELSE onWarning(s, "not initialized, unable to test connection.")
    ELSE Emit(s, Throw("TypeError"))

\* .then(() => ...)
testConnectionAsThen(s) == onConnect(s)

\* .catch((error) => ...)
testConnectionAsCatch(s) == onDisconnect(onError(s, "error"))

initializeUnbound(s) ==
    IF ~s.initialized
    THEN LET created == [Emit(s, Set("client", "handle"))
                            EXCEPT !.client = "handle"]
         IN  Emit(testConnectionAs("client", onInitialize(created)),
                  SetIntervalCall(TestInterval))
    ELSE onWarning(s, "already initialized.")

writeUnbound(s, message) ==
    IF s.initialized /\ s.client # "undefined"
    THEN Emit(s, WritePointCall(generatePoint(message)))
    ELSE onWarning(s, "not initialized, unable to write measurement.")

InitializeUnbound ==
    DatabaseStep(initializeUnbound(Cur), "initialize", <<>>,
                 intervals, {}, transport)

\* an interval timer fires and calls the function it was given
TestConnectionTickUnbound ==
    \E i \in DOMAIN intervals :
        /\ now >= intervals[i]
        /\ DatabaseStep(testConnectionAs("timer", Cur), "testConnectionTick",
                        <<i>>, [intervals EXCEPT ![i] = @ + TestInterval],
                        {}, transport)

TestResolvesUnbound ==
    \E id \in tests.pending :
        DatabaseStep(testConnectionAsThen(Cur), "testResolves", <<id>>,
                     intervals, {id}, "connected")

TestRejectsUnbound ==
    \E id \in tests.pending :
        DatabaseStep(testConnectionAsCatch(Cur), "testRejects", <<id>>,
                     intervals, {id}, "closed")

WriteUnbound ==
    \E m \in StatusMessages :
        DatabaseStep(writeUnbound(Cur, m), "write", <<m>>, intervals, {},
                     transport)

NextInfluxUnbound ==
    \/ InitializeUnbound
    \/ TestConnectionTickUnbound
    \/ TestResolvesUnbound
    \/ TestRejectsUnbound
    \/ WriteUnbound
    \/ InfluxClock

SpecInfluxUnbound == Init /\ [][NextInfluxUnbound]_vars

----------------------------------------------------------------------------
(* SmartHomeDevice: the base class of the devices, an EventEmitter.  The   *)
(* application listens to every event of the device.                       *)

EmitEvent(name, a) == [kind |-> "emit", name |-> name, args |-> a]
Invoked(name) == [kind |-> "listener", name |-> name]

\* this.emit(name, args): the listeners of `name` run
emit(s, name, a) == Emit(Emit(s, EmitEvent(name, a)), Invoked(name))

\* `${error}`
ErrorText(error) == <<error.name, ": ", error.message>>

emitConnect(s, connectTo, bindOn) ==
    LET emitted == emit(s, "connect", [source |-> "this"])
        connecting == IF connectTo # Undefined
                      THEN Emit(emitted, Log(<<"Connect to ", connectTo>>))
                      ELSE emitted
    IN  IF bindOn # Undefined
        THEN Emit(connecting, Log(<<"Bind on ", bindOn>>))
        ELSE connecting

emitDisconnect(s, disconnectFrom, unbindFrom) ==
    LET emitted == emit(s, "disconnect", [source |-> "this"])
        disconnecting ==
            IF disconnectFrom # Undefined
            THEN Emit(emitted, Log(<<"Disconnect from ", disconnectFrom>>))
            ELSE emitted
    IN  IF unbindFrom # Undefined
        THEN Emit(disconnecting, Log(<<"Unbind from ", unbindFrom>>))
        ELSE disconnecting

emitInfo(s, message) ==
    Emit(emit(s, "info", [source |-> "this", message |-> message]),
         Log(message))

emitWarning(s, message) ==
    Emit(emit(s, "warning", [source |-> "this", message |-> message]),
         Log(message))

emitError(s, error) ==
    Emit(emit(s, "warning", [source |-> "this", message |-> ErrorText(error),
                             error |-> error]),
         Log(error))

\* Array.isArray(message): a message is given alone or in an array
RECURSIVE emitEach(_, _, _, _, _)
emitEach(s, name, party, text, messages) ==
    IF messages = <<>> THEN s
    ELSE emitEach(
             Emit(emit(s, name, [source |-> "this", party |-> party,
                                 message |-> Head(messages)]),
                  Log(<<text, party, Head(messages)>>)),
             name, party, text, Tail(messages))

emitSend(s, sendTo, message) ==
    emitEach(s, "send", sendTo, "Send to ",
             IF message.array THEN message.items ELSE <<message.item>>)

emitReceive(s, receiveFrom, message) ==
    emitEach(s, "receive", receiveFrom, "Received from ",
             IF message.array THEN message.items ELSE <<message.item>>)

Endpoints == {Undefined, StringValue(<<"h", "o", "s", "t">>)}
Messages == {"started", "no answer", "retry"}
Errors == {[name |-> "Error", message |-> "timeout"],
           [name |-> "TypeError", message |-> "not a function"],
           [name |-> "Error", message |-> ""]}

CallEmitConnect ==
    /\ \E connectTo \in Endpoints, bindOn \in Endpoints :
          Commit(emitConnect(Cur, connectTo, bindOn), "emitConnect",
                 <<connectTo, bindOn>>)
    /\ UNCHANGED <<now, transport, reconnect, requested, watchdogs,
                   connectedSince>>

CallEmitDisconnect ==
    /\ \E disconnectFrom \in Endpoints, unbindFrom \in Endpoints :
          Commit(emitDisconnect(Cur, disconnectFrom, unbindFrom),
                 "emitDisconnect", <<disconnectFrom, unbindFrom>>)
    /\ UNCHANGED <<now, transport, reconnect, requested, watchdogs,
                   connectedSince>>

CallEmitInfo ==
    /\ \E message \in Messages :
          Commit(emitInfo(Cur, message), "emitInfo", <<message>>)
    /\ UNCHANGED <<now, transport, reconnect, requested, watchdogs,
                   connectedSince>>

CallEmitWarning ==
    /\ \E message \in Messages :
          Commit(emitWarning(Cur, message), "emitWarning", <<message>>)
    /\ UNCHANGED <<now, transport, reconnect, requested, watchdogs,
                   connectedSince>>

CallEmitError ==
    /\ \E error \in Errors :
          Commit(emitError(Cur, error), "emitError", <<error>>)
    /\ UNCHANGED <<now, transport, reconnect, requested, watchdogs,
                   connectedSince>>

\* how many messages an array given to emitSend or emitReceive holds
MaxBatch == 2

Batches ==
    {[array |-> FALSE, item |-> m, items |-> <<>>] : m \in Messages}
    \cup {[array |-> TRUE, item |-> "", items |-> items] :
             items \in UNION {[1..n -> Messages] : n \in 0..MaxBatch}}

CallEmitSend ==
    /\ \E message \in Batches :
          Commit(emitSend(Cur, "broker", message), "emitSend",
                 <<"broker", message>>)
    /\ UNCHANGED <<now, transport, reconnect, requested, watchdogs,
                   connectedSince>>

CallEmitReceive ==
    /\ \E message \in Batches :
          Commit(emitReceive(Cur, "broker", message), "emitReceive",
                 <<"broker", message>>)
    /\ UNCHANGED <<now, transport, reconnect, requested, watchdogs,
                   connectedSince>>

NextDevice ==
    \/ CallEmitSend
    \/ CallEmitReceive
    \/ CallEmitConnect
    \/ CallEmitDisconnect
    \/ CallEmitInfo
    \/ CallEmitWarning
    \/ CallEmitError
    \/ AdvanceClock

SpecDevice == Init /\ [][NextDevice]_vars

----------------------------------------------------------------------------
(* Properties of the peer role.                                            *)

\* C1: a peer starts not connected; onConnect marks it connected, and
\* raises the connect event only when it was not connected (a second
\* onConnect in a row raises nothing); onDisconnect mirrors it; nothing
\* else changes the connected flag, and neither touches another field.
C1_PeerGuards ==
    /\ [](op = "new" => ~connected /\ out = <<>>)
    /\ [][ /\ op' = "onConnect" =>
                /\ connected'
                /\ out' = IF connected THEN <<>>
                          ELSE <<Signal("connect"), Set("connected", TRUE)>>
                /\ UNCHANGED <<initialized, lastActivity, client>>
           /\ op' = "onDisconnect" =>
                /\ ~connected'
                /\ out' = IF connected
                          THEN <<Signal("disconnect"),
                                 Set("connected", FALSE)>>
                          ELSE <<>>
                /\ UNCHANGED <<initialized, lastActivity, client>>
           /\ (op = "onConnect" /\ op' = "onConnect") =>
                Fired(out', "connect") = 0
           /\ (op = "onDisconnect" /\ op' = "onDisconnect") =>
                Fired(out', "disconnect") = 0
           /\ connected' # connected =>
                op' \in {"onConnect", "onDisconnect"} ]_vars

\* a second onConnect in a row: still connected, nothing raised
C1_Witness ==
    op = "onConnect" /\ connected /\ out = <<>>

\* C2: initialized never goes back to false; onInitialize raises the
\* initialize event exactly when the instance was not initialized, and
\* then sets the flag; on an initialized instance it does nothing.
C2_InitializeLatched ==
    [][ /\ initialized => initialized'
        /\ op' = "onInitialize" =>
             IF initialized
             THEN out' = <<>> /\ UNCHANGED object
             ELSE /\ initialized'
                  /\ out' = <<Signal("initialize"), Set("initialized", TRUE)>>
                  /\ UNCHANGED <<lastActivity, connected, client>>
        /\ Fired(out', "initialize") > 0 =>
             ~initialized /\ initialized' /\ Fired(out', "initialize") = 1
      ]_vars

\* onInitialize on an initialized instance
C2_Witness ==
    op = "onInitialize" /\ initialized /\ out = <<>>

\* C3: with the threshold of 15 seconds a new instance is not active, nor
\* is one that never signalled activity; right after onActive it is
\* active; once more than the threshold has passed since the last
\* activity signal it is not active.
C3_ActivityLifecycle ==
    /\ outdatedSec = 15
    /\ op = "new" => ~isActive(Cur)
    /\ idle = Never => ~isActive(Cur)
    /\ op = "onActive" => isActive(Cur) /\ lastActivity = now
    /\ (idle # Never /\ idle > outdatedSec * 1000) => ~isActive(Cur)
    /\ (idle # Never /\ idle < outdatedSec * 1000) => isActive(Cur)

\* an instance that was active and has gone stale
C3_Witness ==
    /\ idle # Never
    /\ idle > outdatedSec * 1000
    /\ lastActivity > 0
    /\ ~isActive(Cur)

----------------------------------------------------------------------------
(* Properties of the MQTT broker client.                                   *)

OnlinePublish == PublishCall(LivenessTopic, <<"1">>, TRUE, 2)

\* C4: the transport's connect callback first publishes code "1" on the
\* liveness topic, retained, at QoS 2, and only then raises the connect
\* event, which the peer role raises when the client was not connected.
C4_ConnectPublishesOnline ==
    op = "connect" =>
        /\ connected
        /\ Len(out) >= 1
        /\ out[1] = OnlinePublish
        /\ SubSeq(out, 2, Len(out)) \in
              {<<>>, <<Signal("connect"), Set("connected", TRUE)>>}

\* a reconnection: the connect callback after a close
C4_Witness ==
    /\ op = "connect"
    /\ reconnect
    /\ out = <<OnlinePublish, Signal("connect"), Set("connected", TRUE)>>

\* the filters subscribed to in `trace`, in order
Subscribes(trace) ==
    LET IsSubscribe(e) == e.kind = "subscribe"
        calls == SelectSeq(trace, IsSubscribe)
    IN  [i \in DOMAIN calls |-> calls[i].topic]

\* C5: when the transport connects again after a close, the connect
\* callback issues every subscription requested so far exactly once, in
\* the order of the requests.
C5_ReplayOnReconnect ==
    (op = "connect" /\ reconnect) => Subscribes(out) = requested

Publishes(trace) ==
    Cardinality({i \in DOMAIN trace : trace[i].kind = "publish"})

\* C6: a publish call on an initialized client that is not connected
\* hands nothing to the transport and raises a warning.
C6_PublishWhileDisconnected ==
    (op \in {"publishStatus", "publishAction"}
     /\ initialized /\ ~connected) =>
        Publishes(out) = 0 /\ Warnings(out) >= 1

\* C7: the topic and body publishStatus(m) hands to the transport, given
\* back to the message callback, raise the status-message event with m's
\* system, room, device, feature and value, and no warning.
C7_StatusRoundTrip ==
    \A m \in StatusMessages :
        (op = "message"
         /\ args = <<StatusTopic(m), StringifyStatusBody(now, m.value)>>) =>
            out = <<StatusMessageEvent(m)>>

\* C8: a payload of exactly 5 segments raises the action-message event
\* with the segments as system, room, device, feature, action; a payload
\* of exactly 4 segments that is not JSON raises neither message event
\* and a warning.
C8_ClassifyBySegments ==
    op = "message" =>
        LET segs == split(args[2])
        IN  /\ Len(segs) = 5 =>
                 out = <<ActionMessageEvent(
                           ActionMessage(segs[1], segs[2], segs[3], segs[4],
                                         segs[5]))>>
            /\ (Len(segs) = 4 /\ ~JSONparse(args[2]).ok) =>
                 /\ \A i \in DOMAIN out :
                       out[i].kind \notin {"statusMessage", "actionMessage"}
                 /\ Warnings(out) >= 1

----------------------------------------------------------------------------
(* Properties of the watchdog timers.                                      *)

----------------------------------------------------------------------------
(* Further properties of the lifecycle roles.                              *)

\* C11: the transport's error callback reports the error and nothing
\* else: it writes no field and raises neither the connect nor the
\* disconnect event; the connected flag changes only in the transport's
\* connect and close callbacks.
C11_ErrorLeavesState ==
    [][ /\ op' = "error" =>
             /\ out' = <<ErrorEvent("Error")>>
             /\ UNCHANGED object
        /\ connected' # connected => op' \in {"connect", "close"} ]_vars

\* an error reported while the client is connected
C11_Witness ==
    /\ op = "error"
    /\ connected
    /\ initialized
    /\ out = <<ErrorEvent("Error")>>

\* C12: a listener starts not listening; onBind raises the bind event and
\* sets listening only when it was not listening, onUnbind raises the
\* unbind event and clears it only when it was listening; onBind while
\* listening and onUnbind while not listening write nothing and raise
\* nothing.
C12_ListenerGuards ==
    /\ [](op = "new" => ~listening)
    /\ [][ /\ op' = "onBind" =>
                IF listening
                THEN out' = <<>> /\ UNCHANGED object
                ELSE /\ listening'
                     /\ out' = <<Signal("bind"), Set("listening", TRUE)>>
                     /\ UNCHANGED <<initialized, lastActivity, connected,
                                    client>>
           /\ op' = "onUnbind" =>
                IF listening
                THEN /\ ~listening'
                     /\ out' = <<Signal("unbind"), Set("listening", FALSE)>>
                     /\ UNCHANGED <<initialized, lastActivity, connected,
                                    client>>
                ELSE out' = <<>> /\ UNCHANGED object
           /\ listening' # listening => op' \in {"onBind", "onUnbind"}
         ]_vars

\* onBind on a listener that is already listening
C12_Witness ==
    op = "onBind" /\ listening /\ out = <<>>

\* C13: every onActive call, whatever the state, raises the activity event
\* once and sets lastActivity to the current time, and touches nothing
\* else; as the clock does not run backwards lastActivity never decreases.
C13_ActiveUnconditional ==
    [][ /\ op' = "onActive" =>
             /\ out' = <<Signal("activity"), Set("lastActivity", now)>>
             /\ lastActivity' = now
             /\ UNCHANGED <<initialized, connected, client, listening>>
        /\ lastActivity' >= lastActivity ]_vars

\* onActive, after time has passed, on an instance that is connected and
\* not initialized
C13_Witness ==
    /\ op = "onActive"
    /\ lastActivity = now
    /\ idle = 0
    /\ ~initialized
    /\ connected
    /\ now > T0

----------------------------------------------------------------------------
(* Properties of what the client hands to the transport.                   *)

TransportCalls(trace) ==
    Cardinality({i \in DOMAIN trace :
                    trace[i].kind \in {"publish", "subscribe"}})

\* C15: on a client that is not connected, initialized or not, every
\* subscribe and publish call makes no call to the transport, raises a
\* warning and does not throw.
C15_NoOpWithWarning ==
    (/\ op \in {"subscribeStatus", "subscribeAction", "publishStatus",
                "publishAction", "publishConnected"}
     /\ ~connected) =>
        /\ TransportCalls(out) = 0
        /\ Warnings(out) >= 1
        /\ \A i \in DOMAIN out : out[i].kind # "throw"

ConnectCalls(trace) ==
    Cardinality({i \in DOMAIN trace : trace[i].kind = "mqttConnect"})

\* C16: no publish of the client carries code "0": every publish on the
\* liveness topic carries "1" or "2"; "0" is the payload of the last will
\* only, which is set where the connection is opened, once, by the
\* initialize() call that initializes the client.
C16_OfflineOnlyAsWill ==
    /\ [](\A i \in DOMAIN out :
            /\ out[i].kind = "publish" =>
                  /\ out[i].body # <<"0">>
                  /\ out[i].topic = LivenessTopic =>
                        out[i].body \in {<<"1">>, <<"2">>}
            /\ out[i].kind = "mqttConnect" =>
                  /\ op = "initialize"
                  /\ ConnectCalls(out) = 1
                  /\ out[i].will.topic = LivenessTopic
                  /\ out[i].will.payload = <<"0">>)
    /\ [][ConnectCalls(out') > 0 => ~initialized /\ initialized']_vars

\* a close callback that disconnects the client and publishes nothing
C16_Witness ==
    /\ op = "close"
    /\ Fired(out, "disconnect") = 1
    /\ Publishes(out) = 0

\* C17: whatever goes to the liveness topic, the last will and every
\* publishConnected, is retained and at QoS 2.
C17_LivenessRetainedQos2 ==
    \A i \in DOMAIN out :
        /\ (out[i].kind = "publish" /\ out[i].topic = LivenessTopic) =>
              out[i].retain /\ out[i].qos = 2
        /\ out[i].kind = "mqttConnect" =>
              /\ out[i].will.topic = LivenessTopic
              /\ out[i].will.retain
              /\ out[i].will.qos = 2

\* a publishConnected call of the application
C17_Witness ==
    /\ op = "publishConnected"
    /\ args = <<<<"2">>>>
    /\ out = <<PublishCall(LivenessTopic, <<"2">>, TRUE, 2)>>

\* the segment a filter has for an argument: the argument if given, else
\* the client's system in the first place and the wildcard in the others
Segment(given, place) ==
    IF given # Omitted THEN given
    ELSE IF place = 1 THEN SystemName
    ELSE <<"+">>

\* C18: on an initialized client subscribeStatus subscribes to a filter
\* of 4 segments and subscribeAction to one of 5, the segments being the
\* arguments in their order joined by '/', with '+' for every omitted
\* room, device, feature or action and the client's system for an omitted
\* system; without arguments the filters are {system}/+/+/+ and
\* {system}/+/+/+/+.
C18_FilterConstruction ==
    (op \in {"subscribeStatus", "subscribeAction"} /\ initialized) =>
        /\ Len(out) = 1
        /\ out[1].kind = "subscribe"
        /\ LET segs == split(out[1].topic)
           IN  /\ Len(segs) = IF op = "subscribeStatus" THEN 4 ELSE 5
               /\ Len(segs) = Len(args)
               /\ \A k \in DOMAIN segs : segs[k] = Segment(args[k], k)
        /\ (\A k \in DOMAIN args : args[k] = Omitted) =>
              out[1].topic =
                 IF op = "subscribeStatus"
                 THEN <<"l", "o", "x", "/", "+", "/", "+", "/", "+">>
                 ELSE <<"l", "o", "x", "/", "+", "/", "+", "/", "+", "/",
                        "+">>

\* subscribeStatus with the room and the feature given only
C18_Witness ==
    /\ op = "subscribeStatus"
    /\ initialized
    /\ args = <<Omitted, Bedroom, Omitted, Relay>>
    /\ Len(out) = 1
    /\ out[1].kind = "subscribe"

Registrations(trace) ==
    Cardinality({i \in DOMAIN trace : trace[i].kind = "on"})

\* C19: the initialize() call that finds the client not initialized opens
\* one connection, registers the connect, close, message and error
\* callbacks once each and raises the initialize event; every later call
\* opens no connection, registers nothing, raises no initialize event,
\* does not throw and writes no field.
C19_InitializeOnce ==
    [][ op' = "initialize" =>
          IF initialized
          THEN /\ ConnectCalls(out') = 0
               /\ Registrations(out') = 0
               /\ Fired(out', "initialize") = 0
               /\ \A i \in DOMAIN out' : out'[i].kind # "throw"
               /\ UNCHANGED object
          ELSE /\ out' = <<ConnectCall, Set("client", "handle"),
                           On("connect"), On("close"), On("message"),
                           On("error"), Signal("initialize"),
                           Set("initialized", TRUE)>>
               /\ initialized'
      ]_vars

\* initialize() on a client that is initialized and connected
C19_Witness ==
    /\ op = "initialize"
    /\ initialized
    /\ connected
    /\ ConnectCalls(out) = 0
    /\ Registrations(out) = 0

After(str, word) ==
    LET hits == {i \in 1..Len(str) : At(str, i, word)}
    IN  IF hits = {} THEN 0
        ELSE (CHOOSE i \in hits : \A j \in hits : i <= j) + Len(word)

----------------------------------------------------------------------------
(* Properties of the configuration.                                        *)

Throws(trace) ==
    Cardinality({i \in DOMAIN trace : trace[i].kind = "throw"})

\* C21: useValueOrDefault returns the value when it is defined and of the
\* default's type, the default when the value is undefined, and throws
\* when the value is defined and of another type; useValueOrThrow returns
\* a defined value and throws on undefined.  The Config constructor throws,
\* before it returns, exactly when one of its options is defined with the
\* wrong type (the error names the first such option), and then no Config
\* object exists; otherwise the object holds for every option the value if
\* given and the default if not.
C21_ConfigErrors ==
    /\ op = "useValueOrDefault" =>
          LET value == args[2]
              default == args[3]
          IN  out = IF value = Undefined THEN <<Return(default)>>
                    ELSE IF typeOf(value) = typeOf(default)
                    THEN <<Return(value)>>
                    ELSE <<[kind |-> "throw", error |-> "Error",
                            message |->
                               "Value named ${reference} does not match the type",
                            reference |-> args[1],
                            type |-> typeOf(default)]>>
    /\ op = "useValueOrThrow" =>
          IF args[2] = Undefined
          THEN Throws(out) = 1 /\ Len(out) = 1
          ELSE out = <<Return(args[2])>>
    /\ op = "newConfig" =>
          LET values == args[4]
              defaults == Defaults(args[1])
              wrong == {k \in DOMAIN values :
                           /\ values[k] # Undefined
                           /\ typeOf(values[k]) # typeOf(defaults[k])}
          IN  IF wrong # {}
              THEN /\ Throws(out) = 1
                   /\ out[Len(out)].kind = "throw"
                   /\ \E k \in wrong :
                         /\ out[Len(out)].reference = OptionNames[k]
                         /\ \A j \in wrong : k <= j
                   /\ config = <<>>
              ELSE /\ Throws(out) = 0
                   /\ Len(config) = 1
                   /\ \A k \in DOMAIN values :
                         config[1][k] = IF values[k] = Undefined
                                        THEN defaults[k] ELSE values[k]

\* a constructor call whose mqtt.port is a string: it throws, no object
C21_Witness ==
    /\ op = "newConfig"
    /\ args[4][1] = Undefined
    /\ args[4][2].type = "string"
    /\ Throws(out) = 1
    /\ config = <<>>

----------------------------------------------------------------------------
(* Events and the flags they announce.                                     *)

\* C22: in every step the connect events raised are as many as the
\* changes of the connected flag from false to true, the disconnect
\* events as many as its changes from true to false, and the initialize
\* events as many as the changes of initialized to true, also when a
\* handler calls onConnect() while the connect event is being dispatched.
C22_EventsCoincideWithFlips ==
    [][ /\ Fired(out', "connect") =
              IF ~connected /\ connected' THEN 1 ELSE 0
        /\ Fired(out', "disconnect") =
              IF connected /\ ~connected' THEN 1 ELSE 0
        /\ Fired(out', "initialize") =
              IF ~initialized /\ initialized' THEN 1 ELSE 0 ]_vars

----------------------------------------------------------------------------
(* What one inbound message does.                                          *)

\* C24: a message callback ends with exactly one outcome, a status message
\* event, an action message event or a warning; it writes no field, so the
\* initialized and connected flags keep their values, and it calls neither
\* publish nor subscribe.
C24_ExactlyOneOutcome ==
    op = "message" =>
        /\ Len(out) = 1
        /\ out[1].kind \in {"statusMessage", "actionMessage", "warning"}

----------------------------------------------------------------------------
(* The connection test of the database client.                            *)

\* the moments a timer of the database client can be due within the time
\* followed
DueTimes ==
    {d \in {T0 + a * Step + b * TestInterval : a \in 0..(MaxElapsed \div Step), b \in 1..2} :
        d <= T0 + MaxElapsed}

\* C27: once initialize() has started the interval timer, no later
\* operation removes it, and whenever it is due within the time followed
\* the connection test runs again and the timer is set for the next
\* interval, connected or not.
C27_TicksContinue ==
    /\ [](initialized => Len(intervals) >= 1)
    /\ [](\A i \in DOMAIN intervals :
             intervals[i] <= T0 + MaxElapsed => intervals[i] \in DueTimes)
    /\ [][\A i \in DOMAIN intervals :
             i \in DOMAIN intervals' /\ intervals'[i] >= intervals[i]]_vars
    /\ \A d \in DueTimes :
          (intervals # <<>> /\ intervals[1] = d)
              ~> (op = "testConnectionTick" /\ out = <<QueryCall>>
                  /\ intervals[1] = d + TestInterval)

\* the second tick of the timer, the client being disconnected since a
\* test failed
C27_Witness ==
    /\ op = "testConnectionTick"
    /\ out = <<QueryCall>>
    /\ tests.issued = 3
    /\ transport = "closed"
    /\ ~connected

----------------------------------------------------------------------------
(* The activity query.                                                     *)

\* C28: isActive is true exactly when less than outdatedSec seconds have
\* passed since the last activity, so it is false when exactly
\* outdatedSec seconds have passed and false while there was no activity;
\* reading it returns that answer, writes no field and raises no event.
C28_IsActiveQuery ==
    /\ [](isActive(Cur) <=> (idle # Never /\ idle < outdatedSec * 1000))
    /\ [](op = "isActive" => out = <<Return(isActive(Cur))>>)
    /\ [][op' = "isActive" => UNCHANGED object]_vars

\* isActive read exactly outdatedSec seconds after the last activity
C28_Witness ==
    /\ op = "isActive"
    /\ idle = outdatedSec * 1000
    /\ out = <<Return(FALSE)>>

----------------------------------------------------------------------------
(* The order of the connect and disconnect events.                         *)

\* C29: over any sequence of connect and close callbacks of the transport
\* the connect and disconnect events alternate, beginning with a connect:
\* a step raises one connect event exactly if it is a connect callback
\* not directly preceded by another, one disconnect event exactly if it
\* is a close callback directly preceded by a connect callback, and a
\* close callback before any connect callback raises nothing.
C29_EventsAlternate ==
    [][ /\ Fired(out', "connect") =
              IF op' = "connect" /\ transport # "connected" THEN 1 ELSE 0
        /\ Fired(out', "disconnect") =
              IF op' = "close" /\ transport = "connected" THEN 1 ELSE 0
      ]_vars

\* a close callback before any connect callback
C29_Witness ==
    /\ op = "close"
    /\ transport = "closed"
    /\ retained = <<>>
    /\ out = <<>>

----------------------------------------------------------------------------
(* What a handler finds when its event reaches it.                         *)

Announcing == {"connect", "disconnect", "bind", "unbind", "initialize"}
\* the flag an event announces, and the value it has before the change
FlagOf(name) ==
    IF name \in {"connect", "disconnect"} THEN "connected"
    ELSE IF name \in {"bind", "unbind"} THEN "listening"
    ELSE "initialized"
OldValue(name) == name \in {"disconnect", "unbind"}

\* C30: a flag is written only after its event has been dispatched: when
\* a connect, disconnect, bind, unbind or initialize event is raised the
\* operation has not written the flag yet, so the handlers find the old
\* value (false for connect, bind and initialize, true for disconnect and
\* unbind), and the write of the new value follows.
C30_FlagWrittenAfterEvent ==
    [][\A i \in DOMAIN out' :
          (out'[i].kind = "signal" /\ out'[i].name \in Announcing) =>
              LET name == out'[i].name
                  before == IF FlagOf(name) = "connected" THEN connected
                            ELSE IF FlagOf(name) = "listening" THEN listening
                            ELSE initialized
              IN  /\ before = OldValue(name)
                  /\ \A j \in 1..i :
                        ~(out'[j].kind = "set"
                          /\ out'[j].field = FlagOf(name))
                  /\ \E j \in (i + 1)..Len(out') :
                        out'[j] = Set(FlagOf(name), ~OldValue(name))
      ]_vars

\* an unbind of a listening instance: the event, then the write
C30_Witness ==
    /\ op = "onUnbind"
    /\ out = <<Signal("unbind"), Set("listening", FALSE)>>
    /\ ~listening

----------------------------------------------------------------------------
(* What a handler of the activity event finds.                             *)

\* C31: the constructor's subscriber of the activity event writes
\* lastActivity before any handler of the application runs, so such a
\* handler always comes after the write of the current time and finds
\* isActive true.
C31_HandlerFindsActive ==
    \A i \in DOMAIN out :
        out[i].kind = "observed" =>
            /\ out[i] = Observed("isActive", TRUE)
            /\ \E j \in 1..(i - 1) : out[j] = Set("lastActivity", now)

\* a handler run by an onActive() at the end of the time followed
C31_Witness ==
    /\ op = "onActive"
    /\ args = <<"handled">>
    /\ now = T0 + MaxElapsed
    /\ out = <<Signal("activity"), Set("lastActivity", now),
               Observed("isActive", TRUE)>>

----------------------------------------------------------------------------
(* Initialization and the traffic of the client.                           *)

\* C32: a connected client is initialized, the liveness topic holds
\* nothing before the client is initialized, and no publish or subscribe
\* call reaches the transport while the initialized flag is false, that
\* is, before the flag is written.
C32_InitializedBeforeTraffic ==
    /\ connected => initialized
    /\ retained # <<>> => initialized
    /\ \A i \in DOMAIN out :
          out[i].kind \in {"publish", "subscribe"} =>
              /\ initialized
              /\ \A j \in (i + 1)..Len(out) :
                    out[j] # Set("initialized", TRUE)

\* C33: a connection test that succeeds connects the client and marks
\* activity, one that fails disconnects it and marks none; tests overlap
\* and complete in any order, and after every completion the client is
\* connected exactly if the test that completed last succeeded, whichever
\* test was started last.
C33_LastCompletedDecides ==
    /\ op = "testResolves" =>
          /\ connected
          /\ Fired(out, "activity") = 1
          /\ lastActivity = now
          /\ Fired(out, "disconnect") = 0
    /\ op = "testRejects" =>
          /\ ~connected
          /\ Fired(out, "activity") = 0
          /\ \A i \in DOMAIN out :
                out[i].kind = "set" => out[i].field # "lastActivity"
          /\ Fired(out, "connect") = 0
    /\ tests.completed # <<>> =>
          (connected <=>
              tests.completed[Len(tests.completed)].outcome = "connected")

\* the test started first fails after the test started second, while the
\* first was in flight, has succeeded: the client is disconnected
C33_Witness ==
    /\ op = "testRejects"
    /\ tests.completed = <<[id |-> 2, outcome |-> "connected"],
                           [id |-> 1, outcome |-> "closed"]>>
    /\ tests.issued = 2
    /\ ~connected

\* C34: however often initialize() is called on one database client, its
\* first call starts the one interval timer and issues the one immediate
\* connection test; a later call logs a warning, starts no timer and
\* issues no test.
C34_OneTimerOneImmediateTest ==
    /\ [](Len(intervals) <= 1)
    /\ [][op' = "initialize" =>
            IF initialized
            THEN /\ out' = <<Log("Already initialized.")>>
                 /\ UNCHANGED <<object, intervals, tests>>
            ELSE /\ intervals = <<>>
                 /\ intervals' = <<now + TestInterval>>
                 /\ tests.issued = 0
                 /\ tests'.issued = 1
                 /\ tests'.pending = {1}]_vars

\* initialize() called again when the timer has fired once
C34_Witness ==
    /\ op = "initialize"
    /\ out = <<Log("Already initialized.")>>
    /\ tests.issued = 2
    /\ Len(intervals) = 1

----------------------------------------------------------------------------
(* The static fields of Config.                                            *)

\* C35: Config.system and Config.logLevel are those the first Config
\* object constructed gave them: constructing another Config object, with
\* whatever system and log level, leaves both as they are.
C35_FirstConfigDecides ==
    [][(config # <<>> /\ op' = "newConfig") => statics' = statics]_vars

----------------------------------------------------------------------------
(* The events of a device.                                                 *)

\* C36: emitError(error) emits one event, named "error", that carries the
\* source, the text of the error and the error; it emits no "warning"
\* event and the listeners of "warning" do not run.
C36_ErrorEventNamedError ==
    op = "emitError" =>
        /\ \E i \in DOMAIN out :
              /\ out[i] = EmitEvent("error",
                                    [source |-> "this",
                                     message |-> ErrorText(args[1]),
                                     error |-> args[1]])
              /\ \A j \in DOMAIN out :
                    out[j].kind = "emit" => j = i
        /\ \A i \in DOMAIN out : out[i] # Invoked("warning")

----------------------------------------------------------------------------
(* The ticks of the database client of modules/InfluxDbClient.ts.          *)

\* C37: every tick of the timer runs the connection test as initialize()
\* ran it: on the client, which it finds initialized, so it issues the
\* query, takes no "not initialized" branch and throws nothing; a test
\* that succeeds ends in onConnect(), one that fails in onError() and
\* onDisconnect().
C37_TickTestsLikeInitialize ==
    /\ op = "testConnectionTick" => out = <<QueryCall>>
    /\ op = "testResolves" =>
          connected /\ Fired(out, "disconnect") = 0
    /\ op = "testRejects" =>
          /\ ~connected
          /\ out[1] = ErrorEvent("error")


=============================================================================
